---- MODULE Spec2Model ----
(***************************************************************************)
(* Model of the ping pong stats Dash app (src/app.py).                     *)
(* The browser holds the four count inputs and the confidence dropdown;   *)
(* two callbacks act on them: update_graph (the "Run Analysis" button)    *)
(* and update_priors (the "Update Priors" button).                        *)
(*                                                                         *)
(* Numbers: counts are integers; confidence levels are in hundredths      *)
(* (0.95 is 95).  A real computed by scipy (density, quantile) is a      *)
(* binary float <<mantissa, exponent>>; a grid point of                   *)
(* linspace(0, 1, 200) is its numerator over 199.                         *)
(***************************************************************************)
EXTENDS Integers, Naturals, Sequences, FiniteSets, TLC

\* ---------------------------------------------------------------- bounds
\* mantissa bits of the floating point model of scipy's doubles
Mant == 14
\* bisection depth of the quantile search
Depth == 10
\* largest value a user types into a prior input
MaxEdit == 1
\* values a user types into an observed input
ObservedEditVals == {0, 1}
\* dropdown options (of conf_interval_values) the user picks in Spec
SelectConfVals == {99, 95}
\* largest |prior| that update_priors may produce
MaxCount == 2
\* clicks of the "Run Analysis" button
MaxClicks == 1
\* largest prior count carried by a request to a callback
MaxReq == 1
\* observed counts carried by a request to a callback
ReqObservedVals == {0, 1}
\* a confidence value that is not a dropdown option
OffMenuConf == 50

\* ------------------------------------------------------- program constants
\* conf_interval_values = [0.99, 0.95, 0.90, 0.80]
ConfIntervalValues == {99, 95, 90, 80}
\* np.linspace(0, 1, 200)
GridPoints == 200
\* dcc.Input(id='prior_wins', value=5)
InitPriorWins == 5
\* dcc.Input(id='prior_losses', value=5)
InitPriorLosses == 5
\* dcc.Input(id='observed_wins', value=0)
InitObservedWins == 0
\* dcc.Input(id='observed_losses', value=0)
InitObservedLosses == 0
\* dcc.Dropdown(id='conf_interval_selector', value=0.95)
InitConf == 95

\* NaN: the empty tuple, distinct from every float <<m, e>>
NaN == <<>>

\* ------------------------------------------------ scipy.stats.beta helpers
RECURSIVE Fact(_)
Fact(n) == IF n <= 0 THEN 1 ELSE n * Fact(n - 1)

Binom(n, k) == IF k < 0 \/ k > n THEN 0 ELSE Fact(n) \div (Fact(k) * Fact(n - k))

\* Binary floating point with a Mant-bit mantissa: <<m, e>> is m * 2^e,
\* with m in [2^(Mant-1), 2^Mant) or m = 0.
MantTop == 2 ^ Mant
MantLow == 2 ^ (Mant - 1)

RECURSIVE Norm(_, _)
Norm(m, e) ==
  IF m = 0 THEN <<0, 0>>
  ELSE IF m >= MantTop * 256 THEN Norm(m \div 256, e + 8)
  ELSE IF m >= MantTop * 16 THEN Norm(m \div 16, e + 4)
  ELSE IF m >= MantTop * 4 THEN Norm(m \div 4, e + 2)
  ELSE IF m >= MantTop THEN Norm(m \div 2, e + 1)
  ELSE IF m * 512 < MantTop THEN Norm(m * 256, e - 8)
  ELSE IF m * 32 < MantTop THEN Norm(m * 16, e - 4)
  ELSE IF m * 8 < MantTop THEN Norm(m * 4, e - 2)
  ELSE IF m < MantLow THEN Norm(m * 2, e - 1)
  ELSE <<m, e>>

FromInt(k) == Norm(k, 0)

FMul(x, y) == Norm(x[1] * y[1], x[2] + y[2])

FAdd(x, y) ==
  IF x[1] = 0 THEN y
  ELSE IF y[1] = 0 THEN x
  ELSE IF x[2] >= y[2]
       THEN IF x[2] - y[2] > Mant THEN x
            ELSE Norm(x[1] * 2 ^ (x[2] - y[2]) + y[1], y[2])
       ELSE IF y[2] - x[2] > Mant THEN y
            ELSE Norm(y[1] * 2 ^ (y[2] - x[2]) + x[1], x[2])

\* x / k for a positive integer k
FDivInt(x, k) == Norm((x[1] * MantTop) \div k, x[2] - Mant)

\* x > y for non-negative floats
FGt(x, y) ==
  IF x[1] = 0 THEN FALSE
  ELSE IF y[1] = 0 THEN TRUE
  ELSE x[2] > y[2] \/ (x[2] = y[2] /\ x[1] > y[1])

\* 1 - x for a float x in [0, 1]
FOneMinus(x) == IF x[1] = 0 THEN FromInt(1) ELSE Norm(2 ^ (-x[2]) - x[1], x[2])

RECURSIVE FPow(_, _)
FPow(x, k) == IF k = 0 THEN FromInt(1) ELSE FMul(FPow(x, k - 1), x)

\* scipy's argument check of the beta distribution: a > 0 and b > 0
BetaArgsOk(a, b) == a > 0 /\ b > 0

\* Beta(a, b).pdf(x) for a float x in [0, 1], integer a, b > 0:
\*   x^(a-1) (1-x)^(b-1) / B(a, b),  1 / B(a, b) = n * C(n-1, a-1), n = a+b-1
BetaPdf(a, b, x) ==
  IF ~BetaArgsOk(a, b) THEN NaN
  ELSE LET n == a + b - 1
           y == FOneMinus(x)
       IN  FMul(FromInt(n * Binom(n - 1, a - 1)),
                FMul(FPow(x, a - 1), FPow(y, b - 1)))

\* Beta(a, b).cdf(x) for x = num / den, integer a, b > 0 (regularised
\* incomplete beta): sum_{j=a}^{n} C(n, j) x^j (1-x)^(n-j),  n = a+b-1
BetaCdfTerm(a, b, num, den, j) ==
  LET n == a + b - 1
      x == FDivInt(FromInt(num), den)
      y == FDivInt(FromInt(den - num), den)
  IN  FMul(FromInt(Binom(n, j)), FMul(FPow(x, j), FPow(y, n - j)))

RECURSIVE BetaCdfSum(_, _, _, _, _)
BetaCdfSum(a, b, num, den, j) ==
  IF j > a + b - 1 THEN FromInt(0)
  ELSE FAdd(BetaCdfTerm(a, b, num, den, j), BetaCdfSum(a, b, num, den, j + 1))

BetaCdf(a, b, num, den) == BetaCdfSum(a, b, num, den, a)

\* Beta(a, b).ppf(p) for p = pnum / 200: the least m / 2^Depth whose cdf
\* reaches p, found by bisection, as a float; NaN outside the argument check
PpfReaches(a, b, pnum, m) ==
  ~FGt(FromInt(pnum), FMul(BetaCdf(a, b, m, 2 ^ Depth), FromInt(200)))

RECURSIVE PpfSearch(_, _, _, _, _)
PpfSearch(a, b, pnum, lo, hi) ==
  IF lo >= hi THEN lo
  ELSE LET mid == (lo + hi) \div 2
       IN  IF PpfReaches(a, b, pnum, mid) THEN PpfSearch(a, b, pnum, lo, mid)
           ELSE PpfSearch(a, b, pnum, mid + 1, hi)

BetaPpf(a, b, pnum) ==
  IF ~BetaArgsOk(a, b) THEN NaN
  ELSE Norm(PpfSearch(a, b, pnum, 0, 2 ^ Depth), -Depth)

\* np.linspace(0, 1, num) with endpoint=True: step = 1 / (num - 1),
\* y = arange(num) * step (+ start 0), and the last point set to stop
\* (built by halves, as an explicit tuple)
RECURSIVE LinspaceRange(_, _, _, _)
LinspaceRange(num, step, lo, hi) ==
  IF lo = hi
  THEN <<IF lo = num THEN FromInt(1) ELSE FMul(FromInt(lo - 1), step)>>
  ELSE LinspaceRange(num, step, lo, (lo + hi) \div 2)
         \o LinspaceRange(num, step, (lo + hi) \div 2 + 1, hi)

\* np.linspace(0, 1, num, endpoint=False): step = 1 / num, no last point
LinspaceNoEndpoint(num) ==
  LET step == FDivInt(FromInt(1), num)
  IN  [i \in 1..num |-> FMul(FromInt(i - 1), step)]

Linspace(num) == LinspaceRange(num, FDivInt(FromInt(1), num - 1), 1, num)

\* Python's builtin max folds left, keeping the running value unless an
\* item compares greater, and every comparison with NaN is false: the
\* result is NaN when the first item is NaN, else the greatest non-NaN item.
IsNaN(x) == x = NaN
PyGreater(x, y) == ~IsNaN(x) /\ ~IsNaN(y) /\ FGt(x, y)
\* the left fold over items lo..hi from the running value cur, in chunks
\* of PyMaxChunk items (each running value is evaluated before the next
\* step)
PyMaxChunk == 10
PyMaxStep(cur, x) == IF PyGreater(x, cur) THEN x ELSE cur
RECURSIVE PyMaxFold(_, _, _, _)
PyMaxFold(s, cur, lo, hi) ==
  IF lo > hi THEN cur
  ELSE LET c == PyMaxStep(cur, s[lo])
       IN  IF IsNaN(c) THEN PyMaxFold(s, c, lo + 1, hi)
           ELSE PyMaxFold(s, c, lo + 1, hi)
RECURSIVE PyMaxChunks(_, _, _)
PyMaxChunks(s, cur, lo) ==
  IF lo > Len(s) THEN cur
  ELSE LET hi == IF lo + PyMaxChunk - 1 < Len(s) THEN lo + PyMaxChunk - 1 ELSE Len(s)
           c == PyMaxFold(s, cur, lo, hi)
       IN  IF IsNaN(c) THEN PyMaxChunks(s, c, hi + 1)
           ELSE PyMaxChunks(s, c, hi + 1)

PyMax(s) == PyMaxChunks(s, s[1], 2)

\* [posterior_beta.pdf(i) for i in x_plot[lo..hi]] (built by halves, as
\* an explicit tuple)
RECURSIVE PdfList(_, _, _, _, _)
PdfList(a, b, xPlot, lo, hi) ==
  IF lo = hi THEN <<BetaPdf(a, b, xPlot[lo])>>
  ELSE PdfList(a, b, xPlot, lo, (lo + hi) \div 2)
         \o PdfList(a, b, xPlot, (lo + hi) \div 2 + 1, hi)

\* -------------------------------------------- variants of update_graph
UpdateGraphSwapped(nClicks, priorWins, priorLosses, observedWins, observedLosses, confInterval) ==
  LET a == priorWins + observedWins
      b == priorLosses + observedLosses
      xPlot == Linspace(GridPoints)
      yPlot == PdfList(a, b, xPlot, 1, GridPoints)
      confIntervalVal == 100 - confInterval
      lb == BetaPpf(a, b, 200 - confIntervalVal)
      ub == BetaPpf(a, b, confIntervalVal)
  IN  [outcome |-> "ok", xPlot |-> xPlot, yPlot |-> yPlot,
       lb |-> lb, ub |-> ub, lineHeight |-> PyMax(yPlot)]

\* update_graph with the usual Dash guard for the page-load call
\* (n_clicks is None): it returns an empty figure
UpdateGraphLoadGuard(nClicks, priorWins, priorLosses, observedWins, observedLosses, confInterval) ==
  IF nClicks = 0
  THEN [outcome |-> "ok", xPlot |-> <<>>, yPlot |-> <<>>,
        lb |-> NaN, ub |-> NaN, lineHeight |-> NaN]
  ELSE LET a == priorWins + observedWins
           b == priorLosses + observedLosses
           xPlot == Linspace(GridPoints)
           yPlot == PdfList(a, b, xPlot, 1, GridPoints)
           confIntervalVal == 100 - confInterval
           lb == BetaPpf(a, b, confIntervalVal)
           ub == BetaPpf(a, b, 200 - confIntervalVal)
       IN  [outcome |-> "ok", xPlot |-> xPlot, yPlot |-> yPlot,
            lb |-> lb, ub |-> ub, lineHeight |-> PyMax(yPlot)]

\* ------------------------------------------------------------ update_graph
\* The returned figure, reduced to its numeric content: the PDF trace
\* (x_plot, y_plot), the two bound lines at lb and ub of height
\* line_height, and the outcome of the call ("ok": a figure is returned).
UpdateGraph(nClicks, priorWins, priorLosses, observedWins, observedLosses, confInterval) ==
  LET a == priorWins + observedWins
      b == priorLosses + observedLosses
      xPlot == Linspace(GridPoints)
      yPlot == PdfList(a, b, xPlot, 1, GridPoints)
      confIntervalVal == 100 - confInterval
      lb == BetaPpf(a, b, confIntervalVal)
      ub == BetaPpf(a, b, 200 - confIntervalVal)
  IN  [outcome |-> "ok", xPlot |-> xPlot, yPlot |-> yPlot,
       lb |-> lb, ub |-> ub, lineHeight |-> PyMax(yPlot)]

\* ----------------------------------------------------------- update_priors
UpdatePriorsCrossed(priorWins, priorLosses, observedWins, observedLosses) ==
  [pw |-> priorWins + observedLosses, pl |-> priorLosses + observedWins,
   ow |-> 0, ol |-> 0]

UpdatePriorsDropLosses(priorWins, priorLosses, observedWins, observedLosses) ==
  [pw |-> priorWins + observedWins, pl |-> priorLosses,
   ow |-> 0, ol |-> 0]

UpdatePriorsNoReset(priorWins, priorLosses, observedWins, observedLosses) ==
  [pw |-> priorWins + observedWins, pl |-> priorLosses + observedLosses,
   ow |-> observedWins, ol |-> observedLosses]

\* The returned data_column children, reduced to the four input values.
UpdatePriors(priorWins, priorLosses, observedWins, observedLosses) ==
  [pw |-> priorWins + observedWins, pl |-> priorLosses + observedLosses,
   ow |-> 0, ol |-> 0]

\* ===================================================== the app in a browser
\* The four dcc.Input values and the dropdown value live in the browser.
\* A button click makes the Dash renderer send the callback's State values
\* (a snapshot of the inputs) to the server; the callback's output is set
\* later, when the response arrives, and edits, dropdown choices and the
\* other callback's responses may land in between.  graphReq / priorsReq
\* hold the snapshot of the pending request of each callback ({} when none
\* is pending); when a second request for the same output is sent before
\* the first one's response, the renderer keeps only the latest one.
\* figure is <<>> until a figure is displayed, then <<g>> where g are the
\* arguments of the update_graph call whose result is shown (Figure below).
\* graphResponses counts the update_graph responses applied so far.
\* On page load Dash calls both callbacks once with n_clicks = None
\* (nClicks = 0) on the initial values of the inputs.
VARIABLES priorWins, priorLosses, observedWins, observedLosses,
          confInterval, nClicks, graphReq, priorsReq, figure,
          graphResponses, lastEvent

vars == <<priorWins, priorLosses, observedWins, observedLosses,
          confInterval, nClicks, graphReq, priorsReq, figure,
          graphResponses, lastEvent>>

GraphArgs(n) ==
  [nClicks |-> n, priorWins |-> priorWins, priorLosses |-> priorLosses,
   observedWins |-> observedWins, observedLosses |-> observedLosses,
   confInterval |-> confInterval]

PriorsArgs ==
  [priorWins |-> priorWins, priorLosses |-> priorLosses,
   observedWins |-> observedWins, observedLosses |-> observedLosses]

FigureOf(g) == UpdateGraph(g.nClicks, g.priorWins, g.priorLosses,
                           g.observedWins, g.observedLosses, g.confInterval)

Figure == FigureOf(figure[1])

Init ==
  /\ priorWins = InitPriorWins
  /\ priorLosses = InitPriorLosses
  /\ observedWins = InitObservedWins
  /\ observedLosses = InitObservedLosses
  /\ confInterval = InitConf
  /\ nClicks = 0
  /\ graphReq = {GraphArgs(0)}
  /\ priorsReq = {PriorsArgs}
  /\ figure = <<>>
  /\ graphResponses = 0
  /\ lastEvent = "load"

\* the user types a value into one of the four number inputs
EditInput ==
  /\ \/ \E v \in 0..MaxEdit :
          \/ priorWins' = v /\ UNCHANGED <<priorLosses, observedWins, observedLosses>>
          \/ priorLosses' = v /\ UNCHANGED <<priorWins, observedWins, observedLosses>>
     \/ \E v \in ObservedEditVals :
          \/ observedWins' = v /\ UNCHANGED <<priorWins, priorLosses, observedLosses>>
          \/ observedLosses' = v /\ UNCHANGED <<priorWins, priorLosses, observedWins>>
  /\ lastEvent' = "edit"
  /\ UNCHANGED <<confInterval, nClicks, graphReq, priorsReq, figure,
                 graphResponses>>

\* the user picks an option of conf_interval_selector
SelectConf ==
  /\ \E c \in SelectConfVals : confInterval' = c
  /\ lastEvent' = "select"
  /\ UNCHANGED <<priorWins, priorLosses, observedWins, observedLosses,
                 nClicks, graphReq, priorsReq, figure, graphResponses>>

\* "Run Analysis" click: the request carries n_clicks, the four inputs and
\* the dropdown value
ClickRunAnalysis ==
  /\ nClicks < MaxClicks
  /\ nClicks' = nClicks + 1
  /\ graphReq' = {GraphArgs(nClicks + 1)}
  /\ lastEvent' = "click_graph"
  /\ UNCHANGED <<priorWins, priorLosses, observedWins, observedLosses,
                 confInterval, priorsReq, figure, graphResponses>>

RunAnalysisFolding ==
  /\ graphReq # {}
  /\ \E g \in graphReq : figure' = <<g>>
  /\ graphReq' = {}
  /\ graphResponses' = graphResponses + 1
  /\ lastEvent' = "update_graph"
  /\ priorWins' = priorWins + observedWins
  /\ priorLosses' = priorLosses + observedLosses
  /\ UNCHANGED <<observedWins, observedLosses, confInterval, nClicks,
                 priorsReq>>

\* the update_graph response arrives: pdf_graph shows
\* update_graph(request's arguments)
RunAnalysis ==
  /\ graphReq # {}
  /\ \E g \in graphReq : figure' = <<g>>
  /\ graphReq' = {}
  /\ graphResponses' = graphResponses + 1
  /\ lastEvent' = "update_graph"
  /\ UNCHANGED <<priorWins, priorLosses, observedWins, observedLosses,
                 confInterval, nClicks, priorsReq>>

\* "Update Priors" click: the request carries the four inputs
ClickUpdatePriors ==
  LET r == UpdatePriors(priorWins, priorLosses, observedWins, observedLosses)
  IN  /\ r.pw \in -MaxCount..MaxCount
      /\ r.pl \in -MaxCount..MaxCount
      /\ priorsReq' = {PriorsArgs}
      /\ lastEvent' = "click_priors"
      /\ UNCHANGED <<priorWins, priorLosses, observedWins, observedLosses,
                     confInterval, nClicks, graphReq, figure, graphResponses>>

\* the update_priors response arrives: data_column is re-rendered with the
\* values update_priors computed from the request's inputs
UpdatePriorsClick ==
  /\ priorsReq # {}
  /\ \E q \in priorsReq :
       LET r == UpdatePriors(q.priorWins, q.priorLosses,
                             q.observedWins, q.observedLosses)
       IN  /\ priorWins' = r.pw
           /\ priorLosses' = r.pl
           /\ observedWins' = r.ow
           /\ observedLosses' = r.ol
  /\ priorsReq' = {}
  /\ lastEvent' = "update_priors"
  /\ UNCHANGED <<confInterval, nClicks, graphReq, figure, graphResponses>>

Next ==
  \/ EditInput \/ SelectConf
  \/ ClickRunAnalysis \/ RunAnalysis
  \/ ClickUpdatePriors \/ UpdatePriorsClick

Spec == Init /\ [][Next]_vars

\* ================================================= direct callback requests
\* Dash serves both callbacks at its _dash-update-component endpoint; the
\* State values of a request are whatever the client sends.  CallSpec
\* starts from the page-load requests made with such values and then runs
\* the two buttons' requests and the responses.
ReqConfs == ConfIntervalValues \cup {OffMenuConf}

CallInit ==
  /\ priorWins \in -1..MaxReq
  /\ priorLosses \in -1..MaxReq
  /\ observedWins \in ReqObservedVals
  /\ observedLosses \in ReqObservedVals
  /\ confInterval \in ReqConfs
  /\ nClicks = 0
  /\ graphReq = {GraphArgs(0)}
  /\ priorsReq = {PriorsArgs}
  /\ figure = <<>>
  /\ graphResponses = 0
  /\ lastEvent = "load"

CallNext ==
  \/ ClickRunAnalysis \/ RunAnalysis
  \/ ClickUpdatePriors \/ UpdatePriorsClick

CallSpec == CallInit /\ [][CallNext]_vars

\* ========================================================== properties
\* the displayed figure was just produced by an update_graph response
FigureFresh == lastEvent = "update_graph"

FigAlpha == figure[1].priorWins + figure[1].observedWins
FigBeta == figure[1].priorLosses + figure[1].observedLosses

FLeq(x, y) == ~FGt(x, y)

\* the inputs of the update_priors request being answered
PriorsReqArgs == CHOOSE q \in priorsReq : TRUE

\* C1: update_priors returns priorWins + observedWins, priorLosses +
\* observedLosses of its request and resets both observed counts to 0.
C1_UpdateAdditive ==
  [][lastEvent' = "update_priors" =>
       LET q == PriorsReqArgs
       IN  /\ priorWins' = q.priorWins + q.observedWins
           /\ priorLosses' = q.priorLosses + q.observedLosses
           /\ observedWins' = 0
           /\ observedLosses' = 0]_vars

C1_Witness == lastEvent = "update_priors" /\ priorWins = 2

\* C2: with both observed counts of the request 0 update_priors returns
\* the request's inputs unchanged; with a nonzero observed count it changes
\* the priors; its result has zero observed counts, so update_priors applied
\* to its result returns that result again.
C2_UpdateIdempotentOnZero ==
  [][lastEvent' = "update_priors" =>
       LET q == PriorsReqArgs
           r == UpdatePriors(q.priorWins, q.priorLosses,
                             q.observedWins, q.observedLosses)
       IN  /\ (q.observedWins = 0 /\ q.observedLosses = 0) =>
                 /\ priorWins' = q.priorWins /\ priorLosses' = q.priorLosses
                 /\ observedWins' = 0 /\ observedLosses' = 0
           /\ (q.observedWins # 0 \/ q.observedLosses # 0) =>
                 <<priorWins', priorLosses'>> # <<q.priorWins, q.priorLosses>>
           /\ UpdatePriors(priorWins', priorLosses', observedWins',
                           observedLosses') = r]_vars

C2_Witness ==
  lastEvent = "update_priors" /\ priorWins = 2 /\ priorLosses = 2

C4_DegenerateRejected ==
  (FigureFresh /\ (FigAlpha <= 0 \/ FigBeta <= 0)) =>
    Figure.outcome = "InvalidDistributionError"

\* C5: an update_graph call given a negative count fails with an
\* InputValidationError.
C5_NegativeRejected ==
  (FigureFresh /\ \E c \in {figure[1].priorWins, figure[1].priorLosses,
                            figure[1].observedWins, figure[1].observedLosses} : c < 0) =>
    Figure.outcome = "InputValidationError"

\* C6: an update_graph call given a confidence level outside
\* {0.80, 0.90, 0.95, 0.99} fails with an InputValidationError.
C6_ConfRejected ==
  (FigureFresh /\ figure[1].confInterval \notin ConfIntervalValues) =>
    Figure.outcome = "InputValidationError"

\* C7: for alpha > 0, beta > 0 and an offered confidence level, the bounds
\* satisfy 0 <= lb <= ub <= 1.
C7_BoundsOrdered ==
  (FigureFresh /\ BetaArgsOk(FigAlpha, FigBeta)
               /\ figure[1].confInterval \in ConfIntervalValues) =>
    LET f == Figure
    IN  /\ FLeq(FromInt(0), f.lb)
        /\ FLeq(f.lb, f.ub)
        /\ FLeq(f.ub, FromInt(1))

C7_Witness ==
  /\ lastEvent = "update_graph" /\ BetaArgsOk(FigAlpha, FigBeta)
  /\ figure[1].confInterval = 99

\* x is the grid point k / 199 up to the rounding of the float model:
\* |199 x - k| <= k * 2^-(Mant-3)
NearGrid(x, k) ==
  IF k = 0 THEN x = FromInt(0)
  ELSE LET p == FMul(x, FromInt(GridPoints - 1))
           sc == 2 ^ (-p[2])
       IN  /\ p[2] < 0
           /\ (p[1] - k * sc) * 2 ^ (Mant - 3) <= k * sc
           /\ (k * sc - p[1]) * 2 ^ (Mant - 3) <= k * sc

\* C8: every figure has 200 grid points x_plot[i] = i/199 (i = 0..199, up
\* to float rounding), strictly increasing from exactly 0 to exactly 1, a
\* y_plot of the same length whose i-th item is the pdf at the i-th grid
\* point, and a line height that is an item of y_plot no item exceeds.
C8_GridShape ==
  FigureFresh =>
    LET f == Figure
    IN  /\ Len(f.xPlot) = 200
        /\ \A i \in 1..200 : NearGrid(f.xPlot[i], i - 1)
        /\ \A i \in 1..199 : FGt(f.xPlot[i + 1], f.xPlot[i])
        /\ f.xPlot[1] = FromInt(0) /\ f.xPlot[200] = FromInt(1)
        /\ Len(f.yPlot) = Len(f.xPlot)
        /\ \A i \in 1..200 : f.yPlot[i] = BetaPdf(FigAlpha, FigBeta, f.xPlot[i])
        /\ \E i \in 1..Len(f.yPlot) : f.lineHeight = f.yPlot[i]
        /\ \A i \in 1..Len(f.yPlot) : ~PyGreater(f.yPlot[i], f.lineHeight)

C8_Witness ==
  lastEvent = "update_graph" /\ BetaArgsOk(FigAlpha, FigBeta) /\ FigBeta >= 2

\* C9: two consecutive update_graph responses for requests with the same
\* five inputs show the same figure, whatever n_clicks of the two calls
\* (None on page load, the click count afterwards) and whatever edits,
\* selections and update_priors steps came in between.
C9_Deterministic ==
  [][(lastEvent' = "update_graph" /\ figure # <<>> /\
      figure'[1].priorWins = figure[1].priorWins /\
      figure'[1].priorLosses = figure[1].priorLosses /\
      figure'[1].observedWins = figure[1].observedWins /\
      figure'[1].observedLosses = figure[1].observedLosses /\
      figure'[1].confInterval = figure[1].confInterval) =>
       FigureOf(figure'[1]) = FigureOf(figure[1])]_vars

\* the page-load figure (n_clicks None) and the figure of the click's
\* request are both shown; observed counts are still nonzero, so no
\* update_priors response changed the inputs between the two requests
C9_Witness ==
  /\ lastEvent = "update_graph" /\ graphResponses = 2
  /\ figure[1].nClicks = 1 /\ observedWins = 1

\* C10: update_priors keeps alpha and beta of its request, so update_graph
\* on its request's inputs and on the inputs it sets returns the same
\* figure.
C10_ShapePreserved ==
  [][lastEvent' = "update_priors" =>
       LET q == PriorsReqArgs
       IN  /\ priorWins' + observedWins' = q.priorWins + q.observedWins
           /\ priorLosses' + observedLosses' = q.priorLosses + q.observedLosses
           /\ UpdateGraph(nClicks, priorWins', priorLosses', observedWins',
                          observedLosses', confInterval)
                = UpdateGraph(nClicks, q.priorWins, q.priorLosses,
                              q.observedWins, q.observedLosses, confInterval)]_vars

C10_Witness ==
  /\ lastEvent = "update_priors" /\ priorWins = 1 /\ priorLosses = 1
  /\ observedWins = 0 /\ graphReq = {} /\ figure # <<>>
  /\ figure[1].observedWins = 1 /\ figure[1].observedLosses = 1

====
